---------------------------- MODULE Spec2Model ----------------------------
(***************************************************************************)
(* Model of modules/blog/views.py: the rating toggle (RatingCreateView),   *)
(* comment submission (CommentCreateView) and the similar-articles         *)
(* selection (ArticleDetailView.get_similar_articles).                     *)
(*                                                                         *)
(* Every database statement issued by a view is one atomic step; request   *)
(* handlers of different workers interleave between statements (Django's   *)
(* default autocommit mode, no transaction.atomic / select_for_update in   *)
(* the views).                                                             *)
(***************************************************************************)
EXTENDS Integers, Sequences, FiniteSets, TLC

\* ------------------------------------------------------------------ bounds
NumWorkers == 2        \* request handlers running concurrently
MaxCalls == 3          \* rating requests accepted in one behaviour
MaxComments == 2       \* comments stored in one behaviour
NumCatalog == 8        \* articles of the catalogue the similar-articles query runs on

Workers == 1..NumWorkers
Articles == {1, 2}     \* ids of the stored articles
Ips == {1, 2}          \* client addresses
Users == {1}           \* ids of the registered users
None == 0              \* Python's None / SQL NULL
Identities == {None} \cup Users

\* ------------------------------------------------------------------ state
VARIABLES
    ratings,     \* Rating table: set of rows [pk, article, ip_address, value, user]
    next_pk,     \* Rating primary-key sequence
    pc,          \* worker -> position inside RatingCreateView.post
    request,     \* worker -> locals of post: article_id, value, ip_address, user
    rating,      \* worker -> the model instance returned by get_or_create
    log,         \* responses sent so far, in the order they were sent
    comments,    \* Comment table: set of rows [id, article, parent, author, name, email, content]
    next_comment_id, \* Comment primary-key sequence
    submission,  \* the comment request handled last
    reply,       \* the answer to it
    tags,        \* catalogue article -> ids of its tags
    obj,         \* the article of the detail page rendered last
    similar_articles \* the list get_similar_articles returned for it

rating_vars == <<ratings, next_pk, pc, request, rating, log>>
comment_vars == <<comments, next_comment_id, submission, reply>>
similar_vars == <<tags, obj, similar_articles>>
vars == <<rating_vars, comment_vars, similar_vars>>

NoRating == [pk |-> 0, article |-> 0, ip_address |-> 0, value |-> 0, user |-> None]
\* existed and conflict record, for the properties, whether a row for the key
\* was stored when the request arrived and whether its INSERT was rejected.
NoRequest == [article_id |-> 0, value |-> 0, ip_address |-> 0, user |-> None,
              existed |-> FALSE, conflict |-> FALSE]

\* ------------------------------------------------------- request parsing
\* request.POST values are strings; the model writes them as character
\* sequences.
Digit == [c \in {"0", "1", "2", "3", "4", "5", "6", "7", "8", "9"} |->
            CASE c = "0" -> 0 [] c = "1" -> 1 [] c = "2" -> 2 [] c = "3" -> 3
              [] c = "4" -> 4 [] c = "5" -> 5 [] c = "6" -> 6 [] c = "7" -> 7
              [] c = "8" -> 8 [] c = "9" -> 9]

RECURSIVE digits_value(_)
digits_value(s) ==
    IF s = <<>> THEN 0
    ELSE 10 * digits_value(SubSeq(s, 1, Len(s) - 1)) + Digit[s[Len(s)]]

all_digits(s) == s # <<>> /\ \A i \in 1..Len(s) : s[i] \in DOMAIN Digit

\* int(str): an optional sign followed by decimal digits; anything else
\* raises ValueError.
int_raises(s) ==
    IF s # <<>> /\ s[1] \in {"-", "+"} THEN ~all_digits(Tail(s)) ELSE ~all_digits(s)

int(s) ==
    IF s[1] = "-" THEN 0 - digits_value(Tail(s))
    ELSE IF s[1] = "+" THEN digits_value(Tail(s))
    ELSE digits_value(s)

UpDown == {<<"1">>, <<"-", "1">>}
PostedValues == UpDown \cup {<<"2">>}

\* The requests a client may send: POST fields, client address, session user.
\* One request carries a value that is no number.
AllRequests ==
    [article_id : Articles, value : PostedValues, ip_address : Ips, user : Identities]
        \cup {[article_id |-> 1, value |-> <<"x">>, ip_address |-> 1, user |-> None]}

\* The requests of the concurrent specification: one voter population racing
\* on the two keys of one article.
RacingRequests ==
    [article_id : {1}, value : UpDown, ip_address : Ips, user : {None}]

\* ------------------------------------------------------- persistence layer
\* Rating.objects.filter(article_id=..., ip_address=...)
lookup(rs, article_id, ip_address) ==
    {r \in rs : r.article = article_id /\ r.ip_address = ip_address}

\* variant: a Rating table without the uniqueness constraint
unique_together_unenforced(rs, row) == FALSE

\* The store's uniqueness constraint on (article, ip_address): an INSERT is
\* rejected with IntegrityError when a row already holds the same pair.
unique_together_violated(rs, row) ==
    \E r \in rs : r.article = row.article /\ r.ip_address = row.ip_address

RECURSIVE sum_values(_)
sum_values(rows) ==
    IF rows = {} THEN 0
    ELSE LET r == CHOOSE x \in rows : TRUE
         IN r.value + sum_values(rows \ {r})

\* Article.get_sum_rating(): the sum of the values of the article's ratings
get_sum_rating(rs, article) == sum_values({r \in rs : r.article = article})

\* ------------------------------------------------------- RatingCreateView
InFlight == {p \in Workers : pc[p] # "idle"}

\* kwargs and defaults of get_or_create become the fields of the new row
create_params(req, pk) ==
    [pk |-> pk, article |-> req.article_id, ip_address |-> req.ip_address,
     value |-> req.value, user |-> req.user]

\* variant: the stored integer compared with the posted string, never equal
same_value_uncast(r, value) == FALSE

\* rating.value == value
same_value(r, value) == r.value = value

\* variant: the overwrite without rating.user = user
overwrite_value_only(r, value, user) == [r EXCEPT !.value = value]

\* rating.value = value; rating.user = user
overwrite(r, value, user) == [r EXCEPT !.value = value, !.user = user]

\* variant: the sum taken over the ratings of every article
rating_sum_all_articles(rs, r) == sum_values(rs)

\* rating.article.get_sum_rating() of the JsonResponse
rating_sum(rs, r) == get_sum_rating(rs, r.article)

JsonResponse(req, status, sum) ==
    [article_id |-> req.article_id, ip_address |-> req.ip_address,
     value |-> req.value, user |-> req.user, existed |-> req.existed,
     conflict |-> req.conflict, status |-> status, rating_sum |-> sum]

\* An uncaught exception: the framework answers with a server error.
ServerError(req, exc) == JsonResponse(req, exc, 0)

\* post, lines 229-233: read the request; int() of a malformed value raises.
post(p, posted) ==
    /\ pc[p] = "idle"
    /\ Len(log) + Cardinality(InFlight) < MaxCalls
    /\ \E data \in posted :
         LET existed == lookup(ratings, data.article_id, data.ip_address) # {}
             req == [article_id |-> data.article_id, value |-> 0,
                     ip_address |-> data.ip_address, user |-> data.user,
                     existed |-> existed, conflict |-> FALSE]
         IN IF int_raises(data.value)
            THEN /\ log' = Append(log, ServerError(req, "ValueError"))
                 /\ UNCHANGED <<pc, request>>
            ELSE /\ request' = [request EXCEPT ![p] = [req EXCEPT !.value = int(data.value)]]
                 /\ pc' = [pc EXCEPT ![p] = "get"]
                 /\ UNCHANGED log
    /\ UNCHANGED <<ratings, next_pk, rating>>
    /\ UNCHANGED <<comment_vars, similar_vars>>

\* get_or_create, first statement: self.get(**kwargs)
get_or_create_get(p) ==
    /\ pc[p] = "get"
    /\ LET found == lookup(ratings, request[p].article_id, request[p].ip_address)
       IN CASE found = {} ->
                 /\ pc' = [pc EXCEPT ![p] = "create"]
                 /\ UNCHANGED <<rating, log, request>>
            [] Cardinality(found) = 1 ->
                 /\ rating' = [rating EXCEPT ![p] = CHOOSE r \in found : TRUE]
                 /\ pc' = [pc EXCEPT ![p] = "not_created"]
                 /\ UNCHANGED <<log, request>>
            [] OTHER ->
                 /\ log' = Append(log, ServerError(request[p], "MultipleObjectsReturned"))
                 /\ pc' = [pc EXCEPT ![p] = "idle"]
                 /\ request' = [request EXCEPT ![p] = NoRequest]
                 /\ UNCHANGED rating
    /\ UNCHANGED <<ratings, next_pk>>
    /\ UNCHANGED <<comment_vars, similar_vars>>

\* get_or_create, after DoesNotExist: self.create(**params) inside
\* transaction.atomic(); an IntegrityError is caught and the get is repeated.
get_or_create_create(p) ==
    /\ pc[p] = "create"
    /\ LET row == create_params(request[p], next_pk)
       IN IF unique_together_violated(ratings, row)
          THEN /\ pc' = [pc EXCEPT ![p] = "get_again"]
               /\ request' = [request EXCEPT ![p].conflict = TRUE]
               /\ UNCHANGED <<ratings, next_pk, rating>>
          ELSE /\ ratings' = ratings \cup {row}
               /\ next_pk' = next_pk + 1
               /\ rating' = [rating EXCEPT ![p] = row]
               /\ pc' = [pc EXCEPT ![p] = "created"]
               /\ UNCHANGED request
    /\ UNCHANGED log
    /\ UNCHANGED <<comment_vars, similar_vars>>

\* get_or_create, after IntegrityError: self.get(**kwargs) once more; when the
\* row is gone again the IntegrityError is re-raised.
get_or_create_get_again(p) ==
    /\ pc[p] = "get_again"
    /\ LET found == lookup(ratings, request[p].article_id, request[p].ip_address)
       IN IF Cardinality(found) = 1
          THEN /\ rating' = [rating EXCEPT ![p] = CHOOSE r \in found : TRUE]
               /\ pc' = [pc EXCEPT ![p] = "not_created"]
               /\ UNCHANGED <<log, request>>
          ELSE /\ log' = Append(log, ServerError(request[p],
                            IF found = {} THEN "IntegrityError" ELSE "MultipleObjectsReturned"))
               /\ pc' = [pc EXCEPT ![p] = "idle"]
               /\ request' = [request EXCEPT ![p] = NoRequest]
               /\ UNCHANGED rating
    /\ UNCHANGED <<ratings, next_pk>>
    /\ UNCHANGED <<comment_vars, similar_vars>>

\* lines 241-243: not created and the same value: rating.delete()
\* (DELETE ... WHERE id = pk; a row already gone deletes nothing)
toggle_off(p) ==
    /\ pc[p] = "not_created"
    /\ same_value(rating[p], request[p].value)
    /\ ratings' = {r \in ratings : r.pk # rating[p].pk}
    /\ pc' = [pc EXCEPT ![p] = "deleted"]
    /\ UNCHANGED <<next_pk, request, rating, log>>
    /\ UNCHANGED <<comment_vars, similar_vars>>

\* lines 245-248: not created and another value: rating.save().  Model.save
\* issues UPDATE ... WHERE id = pk with every field of the instance and, when
\* no row was updated, INSERTs the instance under its old pk.
save(p) ==
    /\ pc[p] = "not_created"
    /\ ~same_value(rating[p], request[p].value)
    /\ LET inst == overwrite(rating[p], request[p].value, request[p].user)
           others == {r \in ratings : r.pk # inst.pk}
       IN IF others # ratings \/ ~unique_together_violated(others, inst)
          THEN /\ ratings' = others \cup {inst}
               /\ rating' = [rating EXCEPT ![p] = inst]
               /\ pc' = [pc EXCEPT ![p] = "updated"]
               /\ UNCHANGED <<log, request>>
          ELSE /\ log' = Append(log, ServerError(request[p], "IntegrityError"))
               /\ pc' = [pc EXCEPT ![p] = "idle"]
               /\ request' = [request EXCEPT ![p] = NoRequest]
               /\ rating' = [rating EXCEPT ![p] = NoRating]
               /\ UNCHANGED ratings
    /\ UNCHANGED next_pk
    /\ UNCHANGED <<comment_vars, similar_vars>>

\* lines 244, 249, 250: the JsonResponse with the freshly queried sum
respond(p) ==
    /\ pc[p] \in {"created", "deleted", "updated"}
    /\ log' = Append(log, JsonResponse(request[p], pc[p], rating_sum(ratings, rating[p])))
    /\ pc' = [pc EXCEPT ![p] = "idle"]
    /\ request' = [request EXCEPT ![p] = NoRequest]
    /\ rating' = [rating EXCEPT ![p] = NoRating]
    /\ UNCHANGED <<ratings, next_pk>>
    /\ UNCHANGED <<comment_vars, similar_vars>>

\* Requests arrive while other requests are being handled.
post_racing(p) == post(p, RacingRequests)

\* Requests arrive one at a time: a request is accepted when no other is
\* being handled (a single-worker deployment).
post_alone(p) == p = 1 /\ InFlight = {} /\ post(p, AllRequests)

\* ------------------------------------------------------ CommentCreateView
\* The identity provider's record of each registered user.
username == [u \in Users |-> "ann"]
user_email == [u \in Users |-> "ann@x.com"]

NoSubmission == [pk |-> 0, user |-> None, content |-> "", name |-> "", email |-> "",
                 parent |-> None, ajax |-> FALSE]
NoReply == [kind |-> "none"]

\* What a client may submit to article pk: the form fields, the session user
\* and the X-Requested-With header.  parent names a stored comment or is
\* empty; name and email are both filled in or both left empty.  One
\* submission has no content.
Submissions ==
    {[pk |-> a, user |-> u, content |-> "Nice post", name |-> contact[1],
      email |-> contact[2], parent |-> parent, ajax |-> ajax] :
        a \in Articles, u \in Identities,
        contact \in {<<"", "">>, <<"Bob", "bob@x.com">>},
        parent \in {None} \cup {c.id : c \in comments}, ajax \in BOOLEAN}
    \cup {[pk |-> 1, user |-> 1, content |-> "", name |-> "", email |-> "",
           parent |-> None, ajax |-> TRUE]}

\* CommentCreateForm.is_valid(): content is required; an anonymous submitter
\* supplies name and email.  The form is built from the POST data alone.
form_is_valid(data) ==
    /\ data.content # ""
    /\ data.user = None => (data.name # "" /\ data.email # "")

\* self.request.headers.get('X-Requested-With') == 'XMLHttpRequest'
is_ajax(data) == data.ajax

\* form.save(commit=False): an unsaved Comment holding the form's fields
form_save_uncommitted(data) ==
    [id |-> None, article |-> None, parent |-> None, author |-> None,
     name |-> data.name, email |-> data.email, content |-> data.content]

\* variant: the author fields taken from the form for every request
resolve_author_from_form(comment, data) ==
    [comment EXCEPT !.name = data.name, !.email = data.email]

\* lines 146-152: the author fields of an authenticated or anonymous request
resolve_author(comment, data) ==
    IF data.user # None
    THEN [comment EXCEPT !.author = data.user,
                         !.name = username[data.user],
                         !.email = user_email[data.user]]
    ELSE [comment EXCEPT !.name = data.name, !.email = data.email]

\* lines 143-154: the Comment row that comment.save() stores
form_valid_comment(data, id) ==
    LET comment == form_save_uncommitted(data)
        attached == [comment EXCEPT !.article = data.pk]
        authored == resolve_author(attached, data)
    IN [authored EXCEPT !.parent = data.parent, !.id = id]

\* lines 157-182: the JSON record of an asynchronous request, or a redirect
\* to the article (time_create and avatar are left out of the model)
form_valid_response(data, comment) ==
    IF is_ajax(data)
    THEN IF data.user # None
         THEN [kind |-> "json", is_child |-> comment.parent # None, id |-> comment.id,
               author |-> username[comment.author], parent_id |-> comment.parent,
               content |-> comment.content,
               get_absolute_url |-> <<"profile", comment.author>>]
         ELSE [kind |-> "json", is_child |-> comment.parent # None, id |-> comment.id,
               author |-> comment.name, parent_id |-> comment.parent,
               content |-> comment.content,
               get_absolute_url |-> <<"mailto:", comment.email>>]
    ELSE [kind |-> "redirect", article |-> comment.article]

\* CreateView.post with a valid form: form_valid
form_valid(data) ==
    /\ form_is_valid(data)
    /\ next_comment_id <= MaxComments
    /\ LET comment == form_valid_comment(data, next_comment_id)
       IN /\ comments' = comments \cup {comment}
          /\ reply' = form_valid_response(data, comment)
    /\ next_comment_id' = next_comment_id + 1
    /\ submission' = data

\* CreateView.post with an invalid form: nothing is stored
form_invalid(data) ==
    /\ ~form_is_valid(data)
    /\ reply' = [kind |-> "form_invalid"]
    /\ submission' = data
    /\ UNCHANGED <<comments, next_comment_id>>

comment_valid == \E data \in Submissions : form_valid(data) /\ UNCHANGED <<rating_vars, similar_vars>>
comment_invalid == \E data \in Submissions : form_invalid(data) /\ UNCHANGED <<rating_vars, similar_vars>>

\* ------------------------------------------------------ ArticleDetailView
Catalog == 1..NumCatalog
Tags == {1, 2}
SimilarLimit == 6

\* Catalogues of the model: the first articles carry both tags, the next
\* ones tag 1, the next ones tag 2, the remaining ones no tag.
TagAssignments ==
    {[a \in Catalog |-> IF a <= c.both THEN {1, 2}
                        ELSE IF a <= c.one THEN {1}
                        ELSE IF a <= c.two THEN {2}
                        ELSE {}] :
        c \in {[both |-> 1, one |-> (NumCatalog + 1) \div 2, two |-> NumCatalog],
               [both |-> 2, one |-> 4, two |-> NumCatalog - 1],
               [both |-> 0, one |-> 3, two |-> 5]}}

\* obj.tags.values_list('id', flat=True)
article_tags_ids(o) == tags[o]

\* Article.objects.filter(tags__in=ids): the join of articles with their
\* tags, one row per (article, matching tag)
filter_tags_in(ids) == {<<a, t>> : a \in Catalog, t \in Tags} \cap
                       {row \in Catalog \X Tags : row[2] \in tags[row[1]] /\ row[2] \in ids}

\* variant: the query without .exclude(id=obj.id)
exclude_nothing(rows, id) == rows

\* .exclude(id=obj.id)
exclude_id(rows, id) == {row \in rows : row[1] # id}

\* .annotate(related_tags=Count('tags')): GROUP BY article, counting its rows
annotate_related_tags(rows) ==
    {[id |-> a, related_tags |-> Cardinality({row \in rows : row[1] = a})] :
        a \in {row[1] : row \in rows}}

RECURSIVE order_by_related_tags(_)
\* .order_by('-related_tags'); list(...).  The store may list equal counts
\* in any order; they are listed by id here, and the shuffle that follows
\* yields every order of the list.
order_by_related_tags(annotated) ==
    IF annotated = {} THEN <<>>
    ELSE LET first == CHOOSE x \in annotated :
                          \A y \in annotated :
                              \/ x.related_tags > y.related_tags
                              \/ (x.related_tags = y.related_tags /\ x.id <= y.id)
         IN <<first.id>> \o order_by_related_tags(annotated \ {first})

Remove(list, i) == SubSeq(list, 1, i - 1) \o SubSeq(list, i + 1, Len(list))

RECURSIVE shuffle(_)
\* random.shuffle(list): every permutation of the list is a possible outcome
shuffle(list) ==
    IF list = <<>> THEN {<<>>}
    ELSE UNION {{<<list[i]>> \o rest : rest \in shuffle(Remove(list, i))} :
                    i \in 1..Len(list)}

\* similar_articles_list[:6]
first_six(list) == SubSeq(list, 1, IF Len(list) < SimilarLimit THEN Len(list) ELSE SimilarLimit)

\* the candidates of get_similar_articles before the shuffle, lines 43-46
similar_candidates(o) ==
    order_by_related_tags(
        annotate_related_tags(exclude_id(filter_tags_in(article_tags_ids(o)), o)))

\* ArticleDetailView.get_similar_articles(obj), called by get_context_data.
\* The method reads the catalogue only, so one call per behaviour is modelled.
get_similar_articles(o) ==
    /\ obj = None
    /\ \E shuffled \in shuffle(similar_candidates(o)) :
           similar_articles' = first_six(shuffled)
    /\ obj' = o
    /\ UNCHANGED tags

detail_view == \E o \in Catalog : get_similar_articles(o) /\ UNCHANGED <<rating_vars, comment_vars>>

\* ------------------------------------------------------------ behaviours
InitRatings ==
    /\ ratings = {}
    /\ next_pk = 1
    /\ pc = [p \in Workers |-> "idle"]
    /\ request = [p \in Workers |-> NoRequest]
    /\ rating = [p \in Workers |-> NoRating]
    /\ log = <<>>

InitComments ==
    /\ comments = {}
    /\ next_comment_id = 1
    /\ submission = NoSubmission
    /\ reply = NoReply

InitCatalog ==
    /\ tags \in TagAssignments
    /\ obj = None
    /\ similar_articles = <<>>

Init == InitRatings /\ InitComments /\ InitCatalog

\* one fixed catalogue for the behaviours that never render a detail page
InitOneCatalog ==
    /\ tags = [a \in Catalog |-> {}]
    /\ obj = None
    /\ similar_articles = <<>>

InitStore == InitRatings /\ InitComments /\ InitOneCatalog

Next ==
    \E p \in Workers :
        \/ post_racing(p)
        \/ get_or_create_get(p)
        \/ get_or_create_create(p)
        \/ get_or_create_get_again(p)
        \/ toggle_off(p)
        \/ save(p)
        \/ respond(p)

Spec == InitStore /\ [][Next]_vars

NextSeq ==
    \E p \in Workers :
        \/ post_alone(p)
        \/ get_or_create_get(p)
        \/ get_or_create_create(p)
        \/ toggle_off(p)
        \/ save(p)
        \/ respond(p)

SpecSeq == InitStore /\ [][NextSeq]_vars

NextComment == comment_valid \/ comment_invalid

SpecComment == InitStore /\ [][NextComment]_vars

NextSimilar == detail_view

SpecSimilar == Init /\ [][NextSimilar]_vars

\* ------------------------------------------------------------ properties
Statuses == {"created", "deleted", "updated"}
LogIdx == 1..Len(log)
SameKey(a, b) == a.article_id = b.article_id /\ a.ip_address = b.ip_address
KeyRows(e) == {r \in ratings : r.article = e.article_id /\ r.ip_address = e.ip_address}

\* entries i < j of the log are two calls in sequence on one key: no other
\* call on that key was answered between them
Consecutive(i, j) ==
    /\ i < j
    /\ SameKey(log[i], log[j])
    /\ \A k \in LogIdx : (i < k /\ k < j) => ~SameKey(log[i], log[k])

\* entry j is the latest call on its key and no call on the key is running
Settled(j) ==
    /\ \A k \in LogIdx : k > j => ~SameKey(log[j], log[k])
    /\ \A p \in InFlight : ~SameKey(log[j], request[p])

\* C1: in every reachable state there is at most one Rating row for each
\* (article_id, ip_address) pair, whatever the interleaving of post calls.
C1_OneRowPerKey ==
    \A r1, r2 \in ratings :
        (r1.article = r2.article /\ r1.ip_address = r2.ip_address) => r1 = r2

\* a creation race happened: a worker's INSERT was rejected while the
\* winner's row is stored
C1_Witness ==
    \E p \in Workers :
        /\ pc[p] = "get_again"
        /\ Cardinality(KeyRows(request[p])) = 1

\* The vote algorithm of the specification, run as one atomic unit on a
\* store of rows without primary keys.
Row(e) == [article |-> e.article_id, ip_address |-> e.ip_address,
           value |-> e.value, user |-> e.user]
Strip(r) == [article |-> r.article, ip_address |-> r.ip_address,
             value |-> r.value, user |-> r.user]
Existing(store, e) ==
    {r \in store : r.article = e.article_id /\ r.ip_address = e.ip_address}
AtomicStatus(store, e) ==
    IF Existing(store, e) = {} THEN "created"
    ELSE IF \E r \in Existing(store, e) : r.value = e.value THEN "deleted"
    ELSE "updated"
AtomicStore(store, e) ==
    IF AtomicStatus(store, e) = "deleted" THEN store \ Existing(store, e)
    ELSE (store \ Existing(store, e)) \cup {Row(e)}

RECURSIVE Replays(_, _, _)
\* the calls log[order[k]], log[order[k+1]], ... run one after the other from
\* store return the logged statuses and end in the stored rows
Replays(store, order, k) ==
    IF k > Len(log) THEN store = {Strip(r) : r \in ratings}
    ELSE /\ AtomicStatus(store, log[order[k]]) = log[order[k]].status
         /\ Replays(AtomicStore(store, log[order[k]]), order, k + 1)

Orders == {f \in [LogIdx -> LogIdx] : \A i, j \in LogIdx : f[i] = f[j] => i = j}

\* C2: the statuses returned and the rows finally stored are those of some
\* sequential ordering of the same calls.
C2_SomeSequentialOrder ==
    (InFlight = {} /\ \A i \in LogIdx : log[i].status \in Statuses)
        => \E order \in Orders : Replays({}, order, 1)

\* C3: a call that lost the creation conflict is answered with created,
\* deleted or updated, never with an error.
C3_LoserNeverFails ==
    \A i \in LogIdx : log[i].conflict => log[i].status \in Statuses

\* C4: with no row stored for the key, two calls in sequence with the same
\* value are answered created then deleted and leave no row for the key.
C4_TwiceSameValue ==
    \A i, j \in LogIdx :
        (/\ Consecutive(i, j)
         /\ ~log[i].existed
         /\ log[i].status \in Statuses /\ log[j].status \in Statuses
         /\ log[i].value = log[j].value)
        => /\ log[i].status = "created"
           /\ log[j].status = "deleted"
           /\ Settled(j) => KeyRows(log[j]) = {}

C4_Witness ==
    \E i, j \in LogIdx :
        /\ Consecutive(i, j) /\ ~log[i].existed /\ Settled(j)
        /\ log[i].value = log[j].value
        /\ log[j].status = "deleted"

\* C5: with no row stored for the key, vote(+1) then vote(-1) in sequence are
\* answered created then updated and leave exactly one row for the key, with
\* value -1 and the user of the second caller.
C5_UpThenDown ==
    \A i, j \in LogIdx :
        (/\ Consecutive(i, j)
         /\ ~log[i].existed
         /\ log[i].status \in Statuses /\ log[j].status \in Statuses
         /\ log[i].value = 1 /\ log[j].value = -1)
        => /\ log[i].status = "created"
           /\ log[j].status = "updated"
           /\ Settled(j) =>
                /\ Cardinality(KeyRows(log[j])) = 1
                /\ \A r \in KeyRows(log[j]) : r.value = -1 /\ r.user = log[j].user

\* an anonymous +1 overwritten by an authenticated -1
C5_Witness ==
    \E i, j \in LogIdx :
        /\ Consecutive(i, j) /\ ~log[i].existed /\ Settled(j)
        /\ log[i].value = 1 /\ log[i].user = None
        /\ log[j].value = -1 /\ log[j].user # None
        /\ log[j].status = "updated"

RECURSIVE Weighted(_, _)
\* the sum of rows' values, counted value by value
Weighted(vals, rows) ==
    IF vals = {} THEN 0
    ELSE LET v == CHOOSE x \in vals : TRUE
         IN v * Cardinality({r \in rows : r.value = v}) + Weighted(vals \ {v}, rows)

StoredSum(article) ==
    LET rows == {r \in ratings : r.article = article}
    IN Weighted({r.value : r \in rows}, rows)

\* C6: the rating_sum of every created / deleted / updated answer is the sum
\* of the values of the rows stored for the article once the call is done.
C6_SumAfterMutation ==
    (InFlight = {} /\ log # <<>> /\ log[Len(log)].status \in Statuses)
        => log[Len(log)].rating_sum = StoredSum(log[Len(log)].article_id)

\* an overwrite answered while the article holds two rows and the other
\* article holds one
C6_Witness ==
    /\ InFlight = {} /\ log # <<>>
    /\ log[Len(log)].status \in {"updated", "deleted"}
    /\ \E r \in ratings : r.article = log[Len(log)].article_id
    /\ \E r \in ratings : r.article # log[Len(log)].article_id

\* C7: every stored rating row has value +1 or -1.
C7_StoredValuesUpDown == \A r \in ratings : r.value \in {1, -1}

NewComment == {c \in comments : c.id = next_comment_id - 1}

C9_ParentSameArticle ==
    \A c \in comments :
        c.parent # None => \E q \in comments : q.id = c.parent /\ q.article = c.article

\* C10: get_similar_articles returns at most 6 articles, never the reference
\* article, and only articles sharing a tag with it.
C10_SimilarArticles ==
    obj # None =>
        /\ Len(similar_articles) <= 6
        /\ \A k \in 1..Len(similar_articles) :
              /\ similar_articles[k] # obj
              /\ tags[similar_articles[k]] \cap tags[obj] # {}

\* more than 6 articles share a tag with the reference article
C10_Witness ==
    /\ obj # None
    /\ Cardinality({a \in Catalog \ {obj} : tags[a] \cap tags[obj] # {}}) > 6
    /\ Len(similar_articles) = 6

=============================================================================
